---- MODULE Spec2Model ----
(***************************************************************************)
(* Model of scripts/clean_notebooks.py: the module body enumerates the     *)
(* files matching notebooks/*.ipynb once, then reads each of them, in list *)
(* order, with nbformat.read(nbf, as_version=4).                            *)
(*                                                                         *)
(* State: the filesystem under the working directory, the module           *)
(* namespace of the script (the names it has bound so far), the position   *)
(* of the for loop's iterator, the statement the script is at, and the     *)
(* history of the calls made to the notebook parser.                       *)
(***************************************************************************)
EXTENDS Naturals, Sequences, FiniteSets

VARIABLES
    pc,         \* statement the script is at: "glob", "for", "read", "done", "error"
    fs,         \* filesystem: path -> content, for the paths that exist
    ns,         \* module namespace: bound name -> value
    it,         \* number of items the for loop's iterator has handed out
    readLog,    \* paths passed to nbformat.read so far, in call order
    created     \* paths another process created while the script was running

vars == <<pc, fs, ns, it, readLog, created>>

----------------------------------------------------------------------------
(* Bounds *)

\* stored line chunks per cell source
MaxChunks == 2
\* cells per notebook
MaxCells == 1
\* files another process creates during one run
MaxCreates == 1

----------------------------------------------------------------------------
(* Paths.  A path is its directory (components below the working           *)
(* directory) and its file name, the name cut at the dots.                  *)

Path(d, n) == [dir |-> d, name |-> n]

NbA == Path(<<"notebooks">>, <<"a", ".", "ipynb">>)
NbB == Path(<<"notebooks">>, <<"b", ".", "ipynb">>)
NbC == Path(<<"notebooks">>, <<"c", ".", "ipynb">>)
Hidden == Path(<<"notebooks">>, <<".", "a", ".", "ipynb">>)
Markdown == Path(<<"notebooks">>, <<"a", ".", "md">>)
Elsewhere == Path(<<"other">>, <<"a", ".", "ipynb">>)

GlobPaths == {NbA, NbB, NbC}
OtherPaths == {Hidden, Markdown, Elsewhere}
Paths == GlobPaths \cup OtherPaths

Range(s) == {s[i] : i \in 1..Len(s)}

\* glob._ishidden: a name that starts with a dot
ishidden(name) == Len(name) >= 1 /\ name[1] = "."

\* fnmatch of a file name against '*.ipynb'
fnmatch(name) ==
    /\ Len(name) >= 2
    /\ name[Len(name) - 1] = "."
    /\ name[Len(name)] = "ipynb"

\* a path matches 'notebooks/*.ipynb': directly in notebooks, the name matches
\* the pattern, and (the pattern not starting with a dot) is not hidden
Matches(p) ==
    /\ p.dir = <<"notebooks">>
    /\ fnmatch(p.name)
    /\ ~ishidden(p.name)

\* what 'notebooks/*' would match instead
glob_glob_star(f) == {p \in DOMAIN f : p.dir = <<"notebooks">>}

\* glob.glob('notebooks/*.ipynb'): the existing paths that match, files and
\* directories alike
glob_glob(f) == {p \in DOMAIN f : Matches(p)}

\* the orders a directory listing can come in
Orderings(S) ==
    {s \in [1..Cardinality(S) -> S] : \A i, j \in 1..Cardinality(S) : s[i] = s[j] => i = j}

----------------------------------------------------------------------------
(* File contents and documents.  A stored cell source is a list of line    *)
(* chunks (the .ipynb form of a multi-line string); the document read from *)
(* it holds the text as one string, here a sequence of characters.          *)

Chunks == {<<"t", "\n">>, <<"t">>, <<"d">>}

SeqsUpTo(S, n) == UNION {[1..k -> S] : k \in 0..n}

Sources == SeqsUpTo(Chunks, MaxChunks)

BodySource == << <<"d">> >>

\* cell lists: the first cell's source is any source, later cells are body cells
CellLists ==
    {<< >>} \cup
    {[i \in 1..k |-> IF i = 1 THEN [source |-> s] ELSE [source |-> BodySource]] :
        s \in Sources, k \in 1..MaxCells}

Directory == [kind |-> "dir", cells |-> << >>]
NotJSON == [kind |-> "text", cells |-> << >>]
Notebook(cells) == [kind |-> "notebook", cells |-> cells]

WithHeader == Notebook(<< [source |-> << <<"t", "\n">>, <<"d">> >>] >>)
OneLine == Notebook(<< [source |-> << <<"t">> >>] >>)
NoCells == Notebook(<< >>)

SampleContents == {Directory, NotJSON, WithHeader, OneLine, NoCells}
NewContents == {WithHeader, NotJSON}
AllContents == {Directory, NotJSON} \cup {Notebook(cs) : cs \in CellLists}

RECURSIVE JoinWith(_, _)
JoinWith(chunks, sep) ==
    IF Len(chunks) = 0 THEN << >>
    ELSE IF Len(chunks) = 1 THEN chunks[1]
    ELSE chunks[1] \o sep \o JoinWith(Tail(chunks), sep)

\* what nbformat.read would give if it joined the stored chunks with line breaks
nbformat_read_newlines(c) ==
    [cells |-> [i \in 1..Len(c.cells) |-> [source |-> JoinWith(c.cells[i].source, <<"\n">>)]]]

\* nbformat.read(nbf, as_version=4) on a file that parses: each cell's stored
\* chunks joined, ''.join, into the cell's text
nbformat_read(c) ==
    [cells |-> [i \in 1..Len(c.cells) |-> [source |-> JoinWith(c.cells[i].source, << >>)]]]

\* str.split('\n'): the text cut at its line breaks, one piece at least
RECURSIVE SplitLines(_)
SplitLines(text) ==
    IF \E i \in 1..Len(text) : text[i] = "\n"
    THEN LET i == CHOOSE k \in 1..Len(text) :
                      text[k] = "\n" /\ \A j \in 1..(k - 1) : text[j] # "\n"
         IN  <<SubSeq(text, 1, i - 1)>> \o SplitLines(SubSeq(text, i + 1, Len(text)))
    ELSE <<text>>

\* lines 16-17: the first cell holds the post title on one line and the post
\* date on the next line
HasHeaderLines(nb) ==
    /\ Len(nb.cells) >= 1
    /\ Len(SplitLines(nb.cells[1].source)) >= 2

\* nbformat.read returns for this path (it raises otherwise: no such file, a
\* directory, not JSON)
CanRead(p) == p \in DOMAIN fs /\ fs[p].kind = "notebook"

\* Python name binding in the module namespace
Bind(n, name, val) == [k \in DOMAIN n \cup {name} |-> IF k = name THEN val ELSE n[k]]

Unbound == [k \in {} |-> 0]

----------------------------------------------------------------------------
(* Initial states: the script has not run a statement.  The filesystem is  *)
(* either any choice of sample contents for the candidate notebooks, with  *)
(* any of the other paths present, or one notebook file of any content.     *)

InitSample ==
    \E g \in SUBSET GlobPaths, o \in SUBSET OtherPaths :
        \E cg \in [g -> SampleContents] :
            fs = [p \in g \cup o |-> IF p \in g THEN cg[p] ELSE WithHeader]

InitOne == \E c \in AllContents : fs = [p \in {NbA} |-> c]

Init ==
    /\ pc = "glob"
    /\ InitSample \/ InitOne
    /\ ns = Unbound
    /\ it = 0
    /\ readLog = << >>
    /\ created = {}

----------------------------------------------------------------------------
(* Actions *)

\* line 11: nb_files = glob.glob('notebooks/*.ipynb')
Glob ==
    /\ pc = "glob"
    /\ \E order \in Orderings(glob_glob(fs)) : ns' = Bind(ns, "nb_files", order)
    /\ pc' = "for"
    /\ UNCHANGED <<fs, it, readLog, created>>

\* the loop as 'for nbf in nb_files[1:]' would run it
ForNextSkip ==
    /\ pc = "for"
    /\ IF it + 1 < Len(ns.nb_files)
       THEN /\ ns' = Bind(ns, "nbf", ns.nb_files[it + 2])
            /\ it' = it + 1
            /\ pc' = "read"
       ELSE /\ pc' = "done"
            /\ UNCHANGED <<ns, it>>
    /\ UNCHANGED <<fs, readLog, created>>

\* the loop as one that takes nb_files[0] before it tests for the end
ForNextIndexed ==
    /\ pc = "for"
    /\ IF Len(ns.nb_files) = 0
       THEN /\ pc' = "error"
            /\ UNCHANGED <<ns, it>>
       ELSE IF it < Len(ns.nb_files)
       THEN /\ ns' = Bind(ns, "nbf", ns.nb_files[it + 1])
            /\ it' = it + 1
            /\ pc' = "read"
       ELSE /\ pc' = "done"
            /\ UNCHANGED <<ns, it>>
    /\ UNCHANGED <<fs, readLog, created>>

\* the loop as one that lists the directory again on every iteration
ForNextReglob ==
    /\ pc = "for"
    /\ \E order \in Orderings(glob_glob(fs)) :
        IF it < Len(order)
        THEN /\ ns' = Bind(Bind(ns, "nb_files", order), "nbf", order[it + 1])
             /\ it' = it + 1
             /\ pc' = "read"
        ELSE /\ ns' = Bind(ns, "nb_files", order)
             /\ pc' = "done"
             /\ UNCHANGED it
    /\ UNCHANGED <<fs, readLog, created>>

\* line 13: for nbf in nb_files, the iterator's next item or the loop's end
ForNext ==
    /\ pc = "for"
    /\ IF it < Len(ns.nb_files)
       THEN /\ ns' = Bind(ns, "nbf", ns.nb_files[it + 1])
            /\ it' = it + 1
            /\ pc' = "read"
       ELSE /\ pc' = "done"
            /\ UNCHANGED <<ns, it>>
    /\ UNCHANGED <<fs, readLog, created>>

\* the read inside 'try: ... except: continue'
ReadSwallow ==
    /\ pc = "read"
    /\ readLog' = Append(readLog, ns.nbf)
    /\ IF CanRead(ns.nbf)
       THEN ns' = Bind(ns, "nb", nbformat_read(fs[ns.nbf]))
       ELSE UNCHANGED ns
    /\ pc' = "for"
    /\ UNCHANGED <<fs, it, created>>

\* the read followed by an unguarded nb.cells[0].source.split('\n')[1]
ReadStrict ==
    /\ pc = "read"
    /\ readLog' = Append(readLog, ns.nbf)
    /\ IF CanRead(ns.nbf)
       THEN /\ ns' = Bind(ns, "nb", nbformat_read(fs[ns.nbf]))
            /\ pc' = IF HasHeaderLines(nbformat_read(fs[ns.nbf])) THEN "for" ELSE "error"
       ELSE /\ pc' = "error"
            /\ UNCHANGED ns
    /\ UNCHANGED <<fs, it, created>>

\* the read followed by writing the document back, each source as one chunk
ReadRewrite ==
    /\ pc = "read"
    /\ readLog' = Append(readLog, ns.nbf)
    /\ IF CanRead(ns.nbf)
       THEN /\ ns' = Bind(ns, "nb", nbformat_read(fs[ns.nbf]))
            /\ fs' = [fs EXCEPT ![ns.nbf] =
                        Notebook([i \in 1..Len(@.cells) |->
                                    [source |-> <<JoinWith(@.cells[i].source, << >>)>>]])]
            /\ pc' = "for"
       ELSE /\ pc' = "error"
            /\ UNCHANGED <<ns, fs>>
    /\ UNCHANGED <<it, created>>

\* the read inside a loop that tries again for as long as it fails
ReadRetry ==
    /\ pc = "read"
    /\ CanRead(ns.nbf)
    /\ readLog' = Append(readLog, ns.nbf)
    /\ ns' = Bind(ns, "nb", nbformat_read(fs[ns.nbf]))
    /\ pc' = "for"
    /\ UNCHANGED <<fs, it, created>>

\* line 15: nb = nbformat.read(nbf, as_version=4); an exception it raises is
\* not caught and ends the script
Read ==
    /\ pc = "read"
    /\ readLog' = Append(readLog, ns.nbf)
    /\ IF CanRead(ns.nbf)
       THEN /\ ns' = Bind(ns, "nb", nbformat_read(fs[ns.nbf]))
            /\ pc' = "for"
       ELSE /\ pc' = "error"
            /\ UNCHANGED ns
    /\ UNCHANGED <<fs, it, created>>

\* another process creates a file while the script runs (a file created
\* before line 11 is a different initial filesystem)
EnvCreate ==
    /\ pc \in {"for", "read"}
    /\ Cardinality(created) < MaxCreates
    /\ \E p \in Paths \ DOMAIN fs, c \in NewContents :
        /\ fs' = [q \in DOMAIN fs \cup {p} |-> IF q = p THEN c ELSE fs[q]]
        /\ created' = created \cup {p}
    /\ UNCHANGED <<pc, ns, it, readLog>>

Script == Glob \/ ForNext \/ Read

Next == Glob \/ ForNext \/ Read \/ EnvCreate

Spec == Init /\ [][Next]_vars

\* the interpreter runs the script's next statement whenever there is one
FairSpec == Spec /\ WF_vars(Script)

----------------------------------------------------------------------------
(* Properties *)

IsPrefix(s, t) == Len(s) <= Len(t) /\ \A i \in 1..Len(s) : s[i] = t[i]

Count(p, s) == Cardinality({i \in 1..Len(s) : s[i] = p})

\* the matching files that were there when line 11 listed the directory
Enumerated == {p \in DOMAIN fs \ created : Matches(p)}

\* nb is the document of the file nbf names: after a read has returned
Aligned == pc \in {"for", "done"} /\ "nb" \in DOMAIN ns

\* the stored first cell has a line break in it
StoredHasBreak(c) ==
    /\ Len(c.cells) >= 1
    /\ \E i \in 1..Len(c.cells[1].source) :
        \E j \in 1..Len(c.cells[1].source[i]) : c.cells[1].source[i][j] = "\n"

\* the script has bound some name of its own to this value
Extracted(v) == \E k \in DOMAIN ns \ {"nb_files", "nbf", "nb"} : ns[k] = v

Terminated == pc \in {"done", "error"}

NoMatch == pc # "glob" /\ ns.nb_files = << >>

\* C1: when the script has run to its end with every parse succeeding, each
\* file that matched notebooks/*.ipynb at enumeration time has been passed to
\* the parser exactly once.
C1_ReadExactlyOnce ==
    pc = "done" => \A p \in Enumerated : Count(p, readLog) = 1

C1_Witness == pc = "done" /\ Cardinality(Enumerated) >= 2 /\ Hidden \in DOMAIN fs

\* C2: when no file matches, the script never calls the parser, never ends in
\* the error state, and reaches its normal end.
C2_NoFilesNoReads ==
    /\ [](NoMatch => (pc # "error" /\ readLog = << >>))
    /\ (NoMatch ~> (pc = "done"))

C2_Witness == pc = "done" /\ ns.nb_files = << >> /\ readLog = << >> /\ DOMAIN fs # {}

\* C3: a parser failure is fatal: a path the parser failed on is the last
\* one passed to it, and the script is then in the error state.
C3_FailureIsFatal ==
    \A i \in 1..Len(readLog) :
        ~CanRead(readLog[i]) => (pc = "error" /\ i = Len(readLog))

C3_Witness == pc = "error" /\ Len(readLog) < Len(ns.nb_files)

\* C4: after reading a notebook whose first cell has at least two lines, the
\* script holds the first line as the title and the second line as the date.
C4_ExtractsTitleAndDate ==
    (Aligned /\ HasHeaderLines(ns.nb)) =>
        /\ Extracted(SplitLines(ns.nb.cells[1].source)[1])
        /\ Extracted(SplitLines(ns.nb.cells[1].source)[2])

C7_OnlyMatchingRead ==
    \A i \in 1..Len(readLog) :
        Matches(readLog[i]) /\ readLog[i] \in Range(ns.nb_files)

C7_Witness == Len(readLog) >= 1 /\ OtherPaths \subseteq DOMAIN fs /\ Terminated

\* C8: the list is the matching files of enumeration time, each once; the
\* reads are a prefix of it, one per iteration; a file created later is in
\* neither.
C8_FixedListInOrder ==
    pc # "glob" =>
        /\ Range(ns.nb_files) = Enumerated
        /\ Len(ns.nb_files) = Cardinality(Enumerated)
        /\ IsPrefix(readLog, ns.nb_files)
        /\ Len(readLog) = IF pc = "read" THEN it - 1 ELSE it
        /\ \A p \in created : p \notin Range(readLog) /\ p \notin Range(ns.nb_files)

C8_Witness ==
    /\ pc = "done"
    /\ Len(readLog) >= 2
    /\ \E p \in created : Matches(p) /\ CanRead(p)

\* C9: no statement of the script changes the filesystem, the document bound
\* to nb changes only when line 15 rebinds it, and after a read it is the
\* document of the file just read.
C9_NoSideEffects ==
    /\ [][(pc' # pc) => (fs' = fs)]_vars
    /\ [][("nb" \in DOMAIN ns /\ pc # "read") => (ns'.nb = ns.nb)]_vars
    /\ [](Aligned => ns.nb = nbformat_read(fs[ns.nbf]))

C9_Witness ==
    /\ pc = "done"
    /\ Len(readLog) >= 2
    /\ fs[readLog[1]] # fs[readLog[2]]
    /\ created # {}

\* C10: the script eventually ends, normally or in the error state, and never
\* calls the parser more often than there are enumerated files.
C10_Terminates ==
    /\ <>Terminated
    /\ [](pc # "glob" => Len(readLog) <= Len(ns.nb_files))

C10_Witness == pc = "done" /\ Len(readLog) = Cardinality(GlobPaths)

====
